---- MODULE Spec2Model ----
(***************************************************************************)
(* Crypto Sniper v2.0 (CryptoSniperWeb.py): quote fetch with fallback,     *)
(* indicator computation, signal / market-state / grid / risk evaluation   *)
(* and the alert log that gates Telegram notifications.                    *)
(*                                                                         *)
(* Floats are modelled as exact rationals [n, d] with d > 0, plus the      *)
(* not-a-number value 0/0.  Every comparison against NaN is false, as in   *)
(* IEEE 754; rounding is not modelled.                                     *)
(***************************************************************************)
EXTENDS Integers, Sequences, FiniteSets, TLC

VARIABLES
    symbols,        \* the watch list chosen in the sidebar
    tg_configured,  \* TG_BOT_TOKEN and TG_CHAT_ID are both set
    alert_log,      \* st.session_state.alert_log: the keys already notified
    sent,           \* history: key -> number of send_telegram calls made under it
    now,            \* the wall clock, as its hour and minute labels
    pc,             \* position in the watch list of the next symbol of this run
    shown,          \* what this run has rendered for each position so far
    last,           \* history: the iteration that ran last
    fn,             \* name of the function under evaluation (function-level runs)
    arg,            \* its input
    ret             \* <<>> before the call, <<result>> after it

mvars == <<symbols, tg_configured, alert_log, sent, now, pc, shown, last>>
fvars == <<fn, arg, ret>>
vars == <<symbols, tg_configured, alert_log, sent, now, pc, shown, last, fn, arg, ret>>

-----------------------------------------------------------------------------
(* Program constants *)

LIMIT == 120
MIN_BARS == 60

-----------------------------------------------------------------------------
(* Floating point values as rationals *)

RECURSIVE Gcd(_, _)
Gcd(a, b) == IF b = 0 THEN a ELSE Gcd(b, a % b)

Abs(x) == IF x < 0 THEN -x ELSE x

NaN == [n |-> 0, d |-> 0]

isna(x) == x.d = 0

\* n/d in lowest terms with a positive denominator; 0/0 is NaN
Frac(n, d) ==
    IF d = 0 THEN NaN
    ELSE LET g == Gcd(Abs(n), Abs(d))
             s == IF d < 0 THEN -1 ELSE 1
         IN  [n |-> s * (n \div g), d |-> s * (d \div g)]

Q(i) == [n |-> i, d |-> 1]

FAdd(a, b) == IF isna(a) \/ isna(b) THEN NaN ELSE Frac(a.n * b.d + b.n * a.d, a.d * b.d)
FSub(a, b) == IF isna(a) \/ isna(b) THEN NaN ELSE Frac(a.n * b.d - b.n * a.d, a.d * b.d)
FMul(a, b) == IF isna(a) \/ isna(b) THEN NaN ELSE Frac(a.n * b.n, a.d * b.d)
FDiv(a, b) == IF isna(a) \/ isna(b) THEN NaN ELSE Frac(a.n * b.d, a.d * b.n)
FAbs(a) == IF isna(a) THEN NaN ELSE [n |-> Abs(a.n), d |-> a.d]

\* Ordered comparisons: false whenever an operand is NaN
Lt(a, b) == ~isna(a) /\ ~isna(b) /\ a.n * b.d < b.n * a.d
Gt(a, b) == Lt(b, a)
Le(a, b) == ~isna(a) /\ ~isna(b) /\ a.n * b.d <= b.n * a.d

-----------------------------------------------------------------------------
(* Data frames.  Python's None is the record None; a frame carries its rows *)

None == [none |-> TRUE]

DataFrame(rows) == [none |-> FALSE, rows |-> rows]

len(df) == Len(df.rows)

Column(rows, col) == [i \in 1..Len(rows) |-> rows[i][col]]

-----------------------------------------------------------------------------
(* Quote source adapters.  A response is what requests.get + r.json() gave: *)
(* kind "error" when either raised (network error, timeout, bad JSON), else *)
(* kind "json" with the decoded body.  A payload row is a tuple of cells.   *)

BINANCE_COLUMNS == 12
OKX_COLUMNS == 7

\* pd.DataFrame(data, columns=...) raises unless every row has that width
WellFormed(data, width) == \A i \in 1..Len(data) : Len(data[i]) = width

\* the five float columns and open_time of one payload row
ParseRow(cells) ==
    [open_time |-> cells[1],
     open   |-> Q(cells[2]),
     high   |-> Q(cells[3]),
     low    |-> Q(cells[4]),
     close  |-> Q(cells[5]),
     volume |-> Q(cells[6])]

get_klines_binance(resp) ==
    IF resp.kind = "error" THEN None
    ELSE IF ~resp.islist \/ Len(resp.data) = 0 THEN None
    ELSE IF ~WellFormed(resp.data, BINANCE_COLUMNS) THEN None
    ELSE DataFrame([i \in 1..Len(resp.data) |-> ParseRow(resp.data[i])])

\* sort_values("open_time").reset_index(drop=True): row i moves to the position
\* given by the number of rows that go before it (earlier, or equal and listed first)
sort_values(rows) ==
    LET n == Len(rows)
        before(j, i) ==
            \/ rows[j].open_time < rows[i].open_time
            \/ rows[j].open_time = rows[i].open_time /\ j < i
        pos == [i \in 1..n |-> 1 + Cardinality({j \in 1..n : before(j, i)})]
    IN  [k \in 1..n |-> rows[CHOOSE i \in 1..n : pos[i] = k]]

get_klines_okx(resp) ==
    IF resp.kind = "error" THEN None
    ELSE IF ~resp.isdict THEN None
    ELSE IF resp.code # "0" \/ Len(resp.data) = 0 THEN None
    ELSE IF ~WellFormed(resp.data, OKX_COLUMNS) THEN None
    ELSE DataFrame(sort_values([i \in 1..Len(resp.data) |-> ParseRow(resp.data[i])]))

\* variant: the fallback is asked first
get_klines_okx_first(binance, okx) ==
    LET df1 == get_klines_binance(binance)
        df2 == get_klines_okx(okx)
    IN  IF ~df2.none /\ len(df2) > 0
        THEN [df |-> df2, source |-> "OKX", calls |-> <<"OKX">>]
        ELSE IF ~df1.none /\ len(df1) > 0
        THEN [df |-> df1, source |-> "Binance", calls |-> <<"OKX", "Binance">>]
        ELSE [df |-> None, source |-> "None", calls |-> <<"OKX", "Binance">>]

\* primary source first, OKX as the fallback; calls lists the adapters invoked
get_klines(binance, okx) ==
    LET df1 == get_klines_binance(binance)
        df2 == get_klines_okx(okx)
    IN  IF ~df1.none /\ len(df1) > 0
        THEN [df |-> df1, source |-> "Binance", calls |-> <<"Binance">>]
        ELSE IF ~df2.none /\ len(df2) > 0
        THEN [df |-> df2, source |-> "OKX", calls |-> <<"Binance", "OKX">>]
        ELSE [df |-> None, source |-> "None", calls |-> <<"Binance", "OKX">>]

-----------------------------------------------------------------------------
(* Indicators *)

\* running [sum, nobs] over s[lo..hi], NaN values left out, as pandas' rolling
\* aggregation keeps them; computed by halves
RECURSIVE Running(_, _, _)
Running(s, lo, hi) ==
    IF lo = hi
    THEN <<IF isna(s[lo]) THEN [sum |-> Q(0), nobs |-> 0] ELSE [sum |-> s[lo], nobs |-> 1]>>
    ELSE LET mid == (lo + hi) \div 2
             left == Running(s, lo, mid)
             right == Running(s, mid + 1, hi)
             carry == left[Len(left)]
         IN  left \o [j \in 1..Len(right) |->
                        [sum |-> FAdd(carry.sum, right[j].sum),
                         nobs |-> carry.nobs + right[j].nobs]]

\* Series.rolling(N).mean(), min_periods = N: the mean of the last N values,
\* NaN when fewer than N of them are present
rolling_mean(s, N) ==
    LET run == IF Len(s) = 0 THEN <<>> ELSE Running(s, 1, Len(s))
        upto(i) == IF i = 0 THEN [sum |-> Q(0), nobs |-> 0] ELSE run[i]
    IN  [i \in 1..Len(s) |->
            IF i < N \/ run[i].nobs - upto(i - N).nobs < N THEN NaN
            ELSE FDiv(FSub(run[i].sum, upto(i - N).sum), Q(N))]

\* Series.shift(1)
shift(s) == [i \in 1..Len(s) |-> IF i = 1 THEN NaN ELSE s[i - 1]]

\* Series.pct_change() * 100
pct_change(s) ==
    [i \in 1..Len(s) |-> FMul(FSub(FDiv(s[i], shift(s)[i]), Q(1)), Q(100))]

\* np.maximum: NaN as soon as one operand is NaN
np_maximum(a, b) == IF isna(a) \/ isna(b) THEN NaN ELSE IF Lt(a, b) THEN b ELSE a

true_range(rows) ==
    LET prev == shift(Column(rows, "close"))
    IN  [i \in 1..Len(rows) |->
            np_maximum(FSub(rows[i].high, rows[i].low),
                       np_maximum(FAbs(FSub(rows[i].high, prev[i])),
                                  FAbs(FSub(rows[i].low, prev[i]))))]

add_indicators(df) ==
    LET rows == df.rows
        close == Column(rows, "close")
        ma20 == rolling_mean(close, 20)
        ma60 == rolling_mean(close, 60)
        ma120 == rolling_mean(close, 120)
        vol_ma20 == rolling_mean(Column(rows, "volume"), 20)
        pct == pct_change(close)
        tr == true_range(rows)
        atr == rolling_mean(tr, 14)
    IN  DataFrame([i \in 1..Len(rows) |->
            [open_time |-> rows[i].open_time,
             open |-> rows[i].open, high |-> rows[i].high,
             low |-> rows[i].low, close |-> rows[i].close,
             volume |-> rows[i].volume,
             ma20 |-> ma20[i], ma60 |-> ma60[i], ma120 |-> ma120[i],
             vol_ma20 |-> vol_ma20[i], pct |-> pct[i],
             tr |-> tr[i], atr |-> atr[i],
             atr_pct |-> FMul(FDiv(atr[i], rows[i].close), Q(100))]])

-----------------------------------------------------------------------------
(* Market state, grid suggestion, sniper signals, risk radar.  Each reads   *)
(* the frame produced by add_indicators.                                    *)

iloc_last(df) == df.rows[len(df)]

\* a > b > c > ... as Python chains it
Descending(xs) == \A i \in 1..(Len(xs) - 1) : Gt(xs[i], xs[i + 1])
Ascending(xs) == \A i \in 1..(Len(xs) - 1) : Lt(xs[i], xs[i + 1])

\* variant: the guard tests for 20 bars, as calculate_grid does
market_state_guard_20(df) ==
    IF df.none \/ len(df) < 20 THEN [text |-> "standby", code |-> "None"]
    ELSE LET latest == iloc_last(df)
             mas == <<latest.close, latest.ma20, latest.ma60, latest.ma120>>
         IN  IF Descending(mas) THEN [text |-> "uptrend", code |-> "UPTREND"]
             ELSE IF Ascending(mas) THEN [text |-> "downtrend", code |-> "DOWNTREND"]
             ELSE [text |-> "range", code |-> "RANGE"]

market_state(df) ==
    IF df.none \/ len(df) < MIN_BARS THEN [text |-> "standby", code |-> "None"]
    ELSE LET latest == iloc_last(df)
             mas == <<latest.close, latest.ma20, latest.ma60, latest.ma120>>
         IN  IF Descending(mas) THEN [text |-> "uptrend", code |-> "UPTREND"]
             ELSE IF Ascending(mas) THEN [text |-> "downtrend", code |-> "DOWNTREND"]
             ELSE [text |-> "range", code |-> "RANGE"]

GRID_SYMBOLS == {"BTCUSDT", "ETHUSDT", "SOLUSDT"}

\* lower_pct and upper_pct are equal for every symbol of the table
GRID_PARAMS(symbol) ==
    CASE symbol = "BTCUSDT" -> [lower_pct |-> Frac(3, 2), upper_pct |-> Frac(3, 2), grid_count |-> 20]
      [] symbol = "ETHUSDT" -> [lower_pct |-> Q(2), upper_pct |-> Q(2), grid_count |-> 20]
      [] symbol = "SOLUSDT" -> [lower_pct |-> Q(3), upper_pct |-> Q(3), grid_count |-> 15]

\* Python's builtin min(a, b): b only when b < a, so a NaN first argument is returned
py_min(a, b) == IF Lt(b, a) THEN b ELSE a

\* variant: max in place of min
atr_factor_max(atr_pct) ==
    LET half == FDiv(atr_pct, Q(2)) IN IF Gt(half, Q(2)) THEN half ELSE Q(2)

atr_factor(atr_pct) == py_min(FDiv(atr_pct, Q(2)), Q(2))

calculate_grid(symbol, df) ==
    IF df.none \/ len(df) < 20 THEN None
    ELSE IF symbol \notin GRID_SYMBOLS THEN None
    ELSE LET latest == iloc_last(df)
             current_price == latest.close
             params == GRID_PARAMS(symbol)
             factor == atr_factor(latest.atr_pct)
             lower_pct == FMul(params.lower_pct, factor)
             upper_pct == FMul(params.upper_pct, factor)
             lower_price == FMul(current_price, FSub(Q(1), FDiv(lower_pct, Q(100))))
             upper_price == FMul(current_price, FAdd(Q(1), FDiv(upper_pct, Q(100))))
         IN  [none |-> FALSE,
              current |-> current_price,
              lower |-> lower_price,
              upper |-> upper_price,
              grid_count |-> params.grid_count,
              grid_width |-> FDiv(FSub(upper_price, lower_price), Q(params.grid_count)),
              atr_pct |-> latest.atr_pct]

NoSignal == [attack |-> FALSE, ambush |-> FALSE, dump |-> FALSE]

\* variant: the price-strength test is left out
attack_rule_no_pct(latest) ==
    /\ Gt(latest.close, latest.ma20) /\ Gt(latest.ma20, latest.ma60)
    /\ Gt(latest.volume, FMul(latest.vol_ma20, Q(2)))

attack_rule(latest) ==
    /\ Gt(latest.close, latest.ma20) /\ Gt(latest.ma20, latest.ma60)
    /\ Gt(latest.volume, FMul(latest.vol_ma20, Q(2)))
    /\ Gt(latest.pct, Frac(8, 10))

ambush_rule(latest) ==
    /\ Gt(latest.volume, FMul(latest.vol_ma20, Q(3)))
    /\ Lt(FAbs(latest.pct), Frac(3, 10))

dump_rule(latest) ==
    /\ Lt(latest.close, latest.ma20)
    /\ Gt(latest.volume, FMul(latest.vol_ma20, Q(2)))
    /\ Lt(latest.pct, Q(-1))

sniper_signal(df) ==
    IF df.none \/ len(df) < MIN_BARS THEN NoSignal
    ELSE LET latest == iloc_last(df)
         IN  IF isna(latest.ma20) \/ isna(latest.ma60) THEN NoSignal
             ELSE [attack |-> attack_rule(latest),
                   ambush |-> ambush_rule(latest),
                   dump |-> dump_rule(latest)]

\* Series.max() / Series.min(): NaN entries are skipped, NaN when none is left
RECURSIVE series_max(_)
series_max(s) ==
    IF s = <<>> THEN NaN
    ELSE LET m == series_max(Tail(s))
         IN  IF isna(Head(s)) THEN m
             ELSE IF isna(m) \/ Gt(Head(s), m) THEN Head(s) ELSE m

RECURSIVE series_min(_)
series_min(s) ==
    IF s = <<>> THEN NaN
    ELSE LET m == series_min(Tail(s))
         IN  IF isna(Head(s)) THEN m
             ELSE IF isna(m) \/ Lt(Head(s), m) THEN Head(s) ELSE m

RECURSIVE series_sum(_)
series_sum(s) == IF s = <<>> THEN Q(0) ELSE FAdd(Head(s), series_sum(Tail(s)))

\* Series.mean() of a series without NaN
series_mean(s) == FDiv(series_sum(s), Q(Len(s)))

\* df.tail(k) of a frame with at least k rows
tail(df, k) == [i \in 1..k |-> df.rows[len(df) - k + i]]

\* variant: the latest volume against the mean of the four before it
vol_spike_previous(df) ==
    LET volume == Column(tail(df, 5), "volume")
    IN  FDiv(volume[5], series_mean(SubSeq(volume, 1, 4)))

vol_spike(df) ==
    LET volume == Column(tail(df, 5), "volume")
    IN  FDiv(volume[5], series_mean(volume))

risk_radar(df) ==
    IF df.none \/ len(df) < 5 THEN None
    ELSE LET recent == tail(df, 5)
             max_pct == series_max(Column(recent, "pct"))
             min_pct == series_min(Column(recent, "pct"))
             alerts ==
                (IF Gt(max_pct, Q(2)) THEN <<[kind |-> "sharp_pump", x |-> max_pct]>> ELSE <<>>)
                \o (IF Lt(min_pct, Q(-2)) THEN <<[kind |-> "sharp_dump", x |-> FAbs(min_pct)]>> ELSE <<>>)
                \o (IF Gt(vol_spike(df), Q(5)) THEN <<[kind |-> "volume_spike", x |-> vol_spike(df)]>> ELSE <<>>)
         IN  IF alerts # <<>> THEN [none |-> FALSE, alerts |-> alerts] ELSE None

-----------------------------------------------------------------------------
(* One iteration of the main loop for one symbol, up to what is rendered.  *)
(* steps lists the evaluation calls the iteration made.                     *)

loop_body(symbol, binance, okx) ==
    LET k == get_klines(binance, okx)
    IN  IF k.df.none \/ len(k.df) < MIN_BARS
        THEN [status |-> "waiting", source |-> k.source, steps |-> <<>>]
        ELSE LET df == add_indicators(k.df)
             IN  [status |-> "shown",
                  source |-> k.source,
                  signals |-> sniper_signal(df),
                  state |-> market_state(df),
                  grid |-> calculate_grid(symbol, df),
                  risk |-> risk_radar(df),
                  steps |-> <<"add_indicators", "sniper_signal", "market_state",
                              "calculate_grid", "risk_radar">>]

-----------------------------------------------------------------------------
(* Inputs: candle windows and exchange payloads *)

MaxTail == 2

\* one-minute candles around a price of 1000: high >= open, close >= low, volume >= 0
Quiet == [open |-> 1000, high |-> 1000, low |-> 1000, close |-> 1000, volume |-> 10]
Halted == [open |-> 1000, high |-> 1000, low |-> 1000, close |-> 1000, volume |-> 0]
Rise == [open |-> 1000, high |-> 1012, low |-> 1000, close |-> 1010, volume |-> 30]
Spike == [open |-> 1000, high |-> 1001, low |-> 999, close |-> 1000, volume |-> 100]
Pump == [open |-> 1005, high |-> 1035, low |-> 1005, close |-> 1030, volume |-> 100]
Crash == [open |-> 975, high |-> 975, low |-> 965, close |-> 970, volume |-> 100]

BaseCandles == {Quiet, Halted}
TailCandles == {Spike, Pump, Crash}

Tails == UNION {[1..k -> TailCandles] : k \in 0..MaxTail}

\* window lengths: both sides of the lengths the code tests (20 and MIN_BARS),
\* the first rows with a defined tail, ATR and long average, and the full window
Lengths == {0, 1, 5, 15, LIMIT} \cup UNION {{k - 1, k} : k \in {20, MIN_BARS}}

\* n candles, oldest first: the base candle repeated, then the tail
Candles(n, base, t) ==
    [i \in 1..n |-> IF i <= n - Len(t) THEN base ELSE t[i - (n - Len(t))]]

Windows == {Candles(n, base, t) : n \in Lengths, base \in BaseCandles, t \in Tails}

\* the frame an adapter builds from candles cs, minute i (1-based) opening at i
Frame(cs) ==
    DataFrame([i \in 1..Len(cs) |->
        [open_time |-> i,
         open |-> Q(cs[i].open), high |-> Q(cs[i].high), low |-> Q(cs[i].low),
         close |-> Q(cs[i].close), volume |-> Q(cs[i].volume)]])

RawWindows == Windows \ {<<>>}

\* frames whose latest row holds arbitrary indicator values, defined or not
RowValues ==
    [close : {NaN, Q(99), Q(101)},
     ma20 : {NaN, Q(100)},
     ma60 : {NaN, Q(98), Q(102)},
     ma120 : {NaN, Q(97), Q(103)},
     volume : {Q(10), Q(25), Q(35)},
     vol_ma20 : {NaN, Q(10)},
     pct : {NaN, Q(-2), Q(0), Q(1)}]

IndicatorRow(v) ==
    [open_time |-> 0, open |-> v.close, high |-> v.close, low |-> v.close,
     close |-> v.close, volume |-> v.volume,
     ma20 |-> v.ma20, ma60 |-> v.ma60, ma120 |-> v.ma120,
     vol_ma20 |-> v.vol_ma20, pct |-> v.pct,
     tr |-> Q(0), atr |-> Q(0), atr_pct |-> Q(0)]

SyntheticFrames ==
    {DataFrame([i \in 1..n |-> IndicatorRow(v)]) : n \in {MIN_BARS - 1, MIN_BARS}, v \in RowValues}

\* exchange payloads
BinanceData(cs) ==
    [i \in 1..Len(cs) |->
        <<i, cs[i].open, cs[i].high, cs[i].low, cs[i].close, cs[i].volume, i + 1, 0, 0, 0, 0, 0>>]

\* OKX lists the newest candle first
OkxData(cs) ==
    [i \in 1..Len(cs) |->
        LET j == Len(cs) + 1 - i
        IN  <<j, cs[j].open, cs[j].high, cs[j].low, cs[j].close, cs[j].volume, 0>>]

ResponseWindows ==
    {Candles(n, Quiet, t) : n \in {1, MIN_BARS - 1, MIN_BARS, LIMIT},
                            t \in {<<>>, <<Pump, Crash>>}}

Malformed == <<<<1, 2, 3>>>>

BinanceResponses ==
    {[kind |-> "error"],
     [kind |-> "json", islist |-> FALSE, data |-> <<>>],
     [kind |-> "json", islist |-> TRUE, data |-> <<>>],
     [kind |-> "json", islist |-> TRUE, data |-> Malformed]}
    \cup {[kind |-> "json", islist |-> TRUE, data |-> BinanceData(cs)] : cs \in ResponseWindows}

OkxResponses ==
    {[kind |-> "error"],
     [kind |-> "json", isdict |-> FALSE],
     [kind |-> "json", isdict |-> TRUE, code |-> "51001", data |-> <<>>],
     [kind |-> "json", isdict |-> TRUE, code |-> "0", data |-> <<>>],
     [kind |-> "json", isdict |-> TRUE, code |-> "0", data |-> Malformed]}
    \cup {[kind |-> "json", isdict |-> TRUE, code |-> "0", data |-> OkxData(cs)] : cs \in ResponseWindows}

SYMBOLS == {"BTCUSDT", "ETHUSDT", "SOLUSDT", "BNBUSDT", "AVAXUSDT"}

-----------------------------------------------------------------------------
(* The wall clock.  A time is the pair of labels strftime gives it: h for   *)
(* '%Y%m%d%H' and m for '%Y%m%d%H%M'.  A new hour is also a new minute.     *)

MaxClock == 1

Times == {[h |-> t[1], m |-> t[2]] : t \in {u \in (0..MaxClock) \X (0..MaxClock) : u[1] <= u[2]}}

NotBefore(t, u) == u.h >= t.h /\ u.m >= t.m /\ u.h - t.h <= u.m - t.m

hour_key(symbol, cond, t) == [symbol |-> symbol, cond |-> cond, bucket |-> <<"hour", t.h>>]
minute_key(symbol, cond, t) == [symbol |-> symbol, cond |-> cond, bucket |-> <<"minute", t.m>>]

-----------------------------------------------------------------------------
(* Notification and the alert log *)

\* send_telegram: returns at once without credentials, swallows every transport error
send_telegram(configured, net) ==
    IF ~configured THEN "skipped"
    ELSE IF net = "ok" THEN "delivered" ELSE "failed"

Count(bag, key) == IF key \in DOMAIN bag THEN bag[key] ELSE 0

\* variant: the key is recorded only when the message went out
notify_on_success(g, key, kind, outcome) ==
    IF key \in g.log THEN [g EXCEPT !.keys = Append(@, key)]
    ELSE [log |-> IF outcome = "delivered" THEN g.log \cup {key} ELSE g.log,
          sent |-> [k \in DOMAIN g.sent \cup {key} |-> Count(g.sent, k) + (IF k = key THEN 1 ELSE 0)],
          keys |-> Append(g.keys, key),
          sends |-> Append(g.sends, [key |-> key, kind |-> kind, outcome |-> outcome])]

\* variant: the log is written but never consulted
notify_always(g, key, kind, outcome) ==
    [log |-> g.log \cup {key},
     sent |-> [k \in DOMAIN g.sent \cup {key} |-> Count(g.sent, k) + (IF k = key THEN 1 ELSE 0)],
     keys |-> Append(g.keys, key),
     sends |-> Append(g.sends, [key |-> key, kind |-> kind, outcome |-> outcome])]

\* if key not in alert_log: send_telegram(...); alert_log[key] = True
\* g carries the log, the send history and the sends of this iteration
notify(g, key, kind, outcome) ==
    IF key \in g.log THEN [g EXCEPT !.keys = Append(@, key)]
    ELSE [log |-> g.log \cup {key},
          sent |-> [k \in DOMAIN g.sent \cup {key} |-> Count(g.sent, k) + (IF k = key THEN 1 ELSE 0)],
          keys |-> Append(g.keys, key),
          sends |-> Append(g.sends, [key |-> key, kind |-> kind, outcome |-> outcome])]

\* the alerts of a risk list whose text names a sharp pump or a sharp dump
notifiable(risk) ==
    IF risk.none THEN <<>>
    ELSE SelectSeq(risk.alerts, LAMBDA r : r.kind \in {"sharp_pump", "sharp_dump"})

\* the number of datetime.now() calls of the alert section for this view
clock_reads(view) ==
    (IF view.signals.attack THEN 1 ELSE 0) + (IF view.signals.dump THEN 1 ELSE 0)
        + Len(notifiable(view.risk))

\* the alert section of one iteration: attack, then dump, then each risk alert;
\* reads[i] is what the i-th datetime.now() returned, nets[i] the transport then
alerts(g0, symbol, view, configured, reads, nets) ==
    LET a == IF view.signals.attack THEN 1 ELSE 0
        d == IF view.signals.dump THEN 1 ELSE 0
        risky == notifiable(view.risk)
        g1 == IF view.signals.attack
              THEN notify(g0, hour_key(symbol, "attack", reads[1]), "attack",
                          send_telegram(configured, nets[1]))
              ELSE g0
        g2 == IF view.signals.dump
              THEN notify(g1, hour_key(symbol, "dump", reads[a + 1]), "dump",
                          send_telegram(configured, nets[a + 1]))
              ELSE g1
        g3 == IF Len(risky) >= 1
              THEN notify(g2, minute_key(symbol, "risk", reads[a + d + 1]), risky[1].kind,
                          send_telegram(configured, nets[a + d + 1]))
              ELSE g2
        g4 == IF Len(risky) >= 2
              THEN notify(g3, minute_key(symbol, "risk", reads[a + d + 2]), risky[2].kind,
                          send_telegram(configured, nets[a + d + 2]))
              ELSE g3
    IN  g4

\* variant: `break`, the run ends at a symbol without data
continue_break(i) == Len(symbols) + 1

\* `continue`: the loop goes on with the next symbol
continue(i) == i + 1

-----------------------------------------------------------------------------
(* Dashboard runs *)

WatchLists == {<<"BTCUSDT", "ETHUSDT">>, <<"BNBUSDT">>}

CalmWindows ==
    {Candles(MIN_BARS - 1, Quiet, <<>>), Candles(LIMIT, Quiet, <<>>), Candles(LIMIT, Quiet, <<Rise>>)}

VolatileWindows ==
    CalmWindows \cup {Candles(LIMIT, Quiet, <<Crash>>), Candles(LIMIT, Quiet, <<Pump, Crash>>)}

\* what Binance may answer for a symbol in these runs: BTCUSDT trades wildly
TickBinance(symbol) ==
    {[kind |-> "error"], [kind |-> "json", islist |-> TRUE, data |-> Malformed]}
    \cup {[kind |-> "json", islist |-> TRUE, data |-> BinanceData(cs)] :
            cs \in IF symbol = "BTCUSDT" THEN VolatileWindows ELSE CalmWindows}

TickOkx ==
    {[kind |-> "error"],
     [kind |-> "json", isdict |-> TRUE, code |-> "51001", data |-> <<>>],
     [kind |-> "json", isdict |-> TRUE, code |-> "0",
      data |-> OkxData(Candles(MIN_BARS, Quiet, <<Rise>>))]}

Watched == UNION {{w[i] : i \in 1..Len(w)} : w \in WatchLists}

\* every view an iteration can render for a symbol, over the responses above
Views == [s \in Watched |-> {loop_body(s, b, o) : b \in TickBinance(s), o \in TickOkx}]

Idle == [status |-> "none"]

Monotone(t0, reads) ==
    \A i \in 1..Len(reads) : NotBefore(IF i = 1 THEN t0 ELSE reads[i - 1], reads[i])

Init ==
    /\ symbols \in WatchLists
    /\ tg_configured \in BOOLEAN
    /\ alert_log = {}
    /\ sent = <<>>
    /\ now = [h |-> 0, m |-> 0]
    /\ pc = 1
    /\ shown = [i \in 1..Len(symbols) |-> "none"]
    /\ last = Idle
    /\ fn = "main" /\ arg = <<>> /\ ret = <<>>

\* one iteration of `for col, symbol in zip(cols, symbols)` whose data is short or missing
Waiting(view) ==
    /\ view.status = "waiting"
    /\ shown' = [shown EXCEPT ![pc] = "waiting"]
    /\ last' = [status |-> "waiting", symbol |-> symbols[pc],
                fired |-> <<>>, keys |-> <<>>, sends |-> <<>>]
    /\ pc' = continue(pc)
    /\ UNCHANGED <<alert_log, sent, now>>

\* the conditions whose alert gate an iteration reaches, in the order of the code
fired(view) ==
    (IF view.signals.attack THEN <<"attack">> ELSE <<>>)
    \o (IF view.signals.dump THEN <<"dump">> ELSE <<>>)
    \o [i \in 1..Len(notifiable(view.risk)) |-> notifiable(view.risk)[i].kind]

\* one iteration that evaluates the symbol and runs its alert section
Evaluated(view) ==
    /\ view.status = "shown"
    /\ \E reads \in [1..clock_reads(view) -> Times], nets \in [1..clock_reads(view) -> {"ok", "error"}] :
        /\ Monotone(now, reads)
        /\ LET g == alerts([log |-> alert_log, sent |-> sent, keys |-> <<>>, sends |-> <<>>],
                           symbols[pc], view, tg_configured, reads, nets)
           IN  /\ alert_log' = g.log
               /\ sent' = g.sent
               /\ now' = IF reads = <<>> THEN now ELSE reads[Len(reads)]
               /\ last' = [status |-> "shown", symbol |-> symbols[pc],
                           fired |-> fired(view), keys |-> g.keys, sends |-> g.sends]
    /\ shown' = [shown EXCEPT ![pc] = "shown"]
    /\ pc' = pc + 1

Iteration ==
    /\ pc \in 1..Len(symbols)
    /\ \E view \in Views[symbols[pc]] : Waiting(view) \/ Evaluated(view)
    /\ UNCHANGED <<symbols, tg_configured, fn, arg, ret>>

\* time.sleep(refresh_sec); st.rerun(): the script starts over, the session state stays
Rerun ==
    /\ pc = Len(symbols) + 1
    /\ \E t \in Times : NotBefore(now, t) /\ now' = t
    /\ pc' = 1
    /\ shown' = [i \in 1..Len(symbols) |-> "none"]
    /\ UNCHANGED <<symbols, tg_configured, alert_log, sent, last, fn, arg, ret>>

Next == Iteration \/ Rerun

Spec == Init /\ [][Next]_vars

-----------------------------------------------------------------------------
(* Function-level runs: one call of one function on one input *)

FnInit ==
    /\ symbols = <<>> /\ tg_configured = FALSE /\ alert_log = {} /\ sent = <<>>
    /\ now = [h |-> 0, m |-> 0] /\ pc = 1 /\ shown = <<>> /\ last = Idle
    /\ ret = <<>>
    /\ \/ fn = "get_klines" /\ arg \in [binance : BinanceResponses, okx : OkxResponses]
       \/ fn = "loop_body"
            /\ arg \in [symbol : {"BTCUSDT", "BNBUSDT"}, binance : BinanceResponses, okx : OkxResponses]
       \/ fn \in {"market_state", "sniper_signal"} /\ arg \in {None} \cup SyntheticFrames
       \/ fn = "risk_radar" /\ arg = None
       \/ fn = "calculate_grid" /\ arg \in [symbol : SYMBOLS, df : {None}]
       \/ \E cs \in RawWindows :
            LET raw == Frame(cs)
                df == add_indicators(raw)
            IN  \/ fn = "add_indicators" /\ arg = raw
                \/ fn \in {"market_state", "sniper_signal", "risk_radar"} /\ arg = df
                \/ fn = "calculate_grid" /\ arg \in [symbol : SYMBOLS, df : {df}]

CallGetKlines ==
    /\ fn = "get_klines" /\ ret = <<>>
    /\ ret' = <<get_klines(arg.binance, arg.okx)>>
    /\ UNCHANGED <<fn, arg>> /\ UNCHANGED mvars

CallAddIndicators ==
    /\ fn = "add_indicators" /\ ret = <<>>
    /\ ret' = <<add_indicators(arg)>>
    /\ UNCHANGED <<fn, arg>> /\ UNCHANGED mvars

CallMarketState ==
    /\ fn = "market_state" /\ ret = <<>>
    /\ ret' = <<market_state(arg)>>
    /\ UNCHANGED <<fn, arg>> /\ UNCHANGED mvars

CallSniperSignal ==
    /\ fn = "sniper_signal" /\ ret = <<>>
    /\ ret' = <<sniper_signal(arg)>>
    /\ UNCHANGED <<fn, arg>> /\ UNCHANGED mvars

CallCalculateGrid ==
    /\ fn = "calculate_grid" /\ ret = <<>>
    /\ ret' = <<calculate_grid(arg.symbol, arg.df)>>
    /\ UNCHANGED <<fn, arg>> /\ UNCHANGED mvars

CallRiskRadar ==
    /\ fn = "risk_radar" /\ ret = <<>>
    /\ ret' = <<risk_radar(arg)>>
    /\ UNCHANGED <<fn, arg>> /\ UNCHANGED mvars

CallLoopBody ==
    /\ fn = "loop_body" /\ ret = <<>>
    /\ ret' = <<loop_body(arg.symbol, arg.binance, arg.okx)>>
    /\ UNCHANGED <<fn, arg>> /\ UNCHANGED mvars

FnNext ==
    \/ CallGetKlines
    \/ CallAddIndicators
    \/ CallMarketState
    \/ CallSniperSignal
    \/ CallCalculateGrid
    \/ CallRiskRadar
    \/ CallLoopBody

SpecFn == FnInit /\ [][FnNext]_vars

Returned(f) == fn = f /\ ret # <<>>

-----------------------------------------------------------------------------
(* Properties *)

Usable(df) == ~df.none /\ len(df) > 0

Short(df) == df.none \/ len(df) < MIN_BARS

\* C1: get_klines returns the Binance window, tagged "Binance" and without calling
\* OKX, whenever Binance yields a non-empty window; the OKX window tagged "OKX"
\* only when Binance yields None or nothing and OKX a non-empty window; and
\* (None, None) exactly when neither adapter yields a non-empty window.
C1_FallbackOrder ==
    Returned("get_klines") =>
        LET b == get_klines_binance(arg.binance)
            o == get_klines_okx(arg.okx)
            r == ret[1]
        IN  /\ Usable(b) => r.df = b /\ r.source = "Binance" /\ r.calls = <<"Binance">>
            /\ (~Usable(b) /\ Usable(o)) => r.df = o /\ r.source = "OKX"
            /\ r.source = "OKX" => ~Usable(b) /\ Usable(o)
            /\ (r.df.none /\ r.source = "None") <=> (~Usable(b) /\ ~Usable(o))
            /\ r.df.none <=> r.source = "None"

\* Binance answered with rows that do not parse and OKX supplied the window
C1_Witness ==
    /\ Returned("get_klines")
    /\ arg.binance.kind = "json" /\ arg.binance.data = Malformed
    /\ ret[1].source = "OKX" /\ len(ret[1].df) = LIMIT

\* C2: for a window that is None or shorter than MIN_BARS, sniper_signal returns
\* (False, False, False), market_state returns standby, and the loop iteration
\* shows the waiting state without computing indicators, signals, grid or risk,
\* so that it has nothing to notify.
C2_ShortWindowInert ==
    /\ (Returned("sniper_signal") /\ Short(arg)) => ret[1] = NoSignal
    /\ (Returned("market_state") /\ Short(arg)) => ret[1] = [text |-> "standby", code |-> "None"]
    /\ (Returned("loop_body") /\ Short(get_klines(arg.binance, arg.okx).df)) =>
            /\ ret[1].status = "waiting"
            /\ ret[1].steps = <<>>
            /\ DOMAIN ret[1] = {"status", "source", "steps"}

\* market_state was called on a window one bar short of MIN_BARS
C2_Witness ==
    /\ Returned("market_state")
    /\ ~arg.none /\ len(arg) = MIN_BARS - 1
    /\ ret[1].code = "None"

\* C3: sniper_signal never returns attack together with dump, nor attack together
\* with ambush, whatever the latest row holds.
C3_AttackExclusive ==
    Returned("sniper_signal") =>
        /\ ~(ret[1].attack /\ ret[1].dump)
        /\ ~(ret[1].attack /\ ret[1].ambush)

\* an attack on a row whose volume also passes the ambush volume test
C3_Witness ==
    /\ Returned("sniper_signal")
    /\ ret[1].attack
    /\ Gt(iloc_last(arg).volume, FMul(iloc_last(arg).vol_ma20, Q(3)))

\* C6 (as claimed): market_state returns standby whenever ma20, ma60 or ma120 of the
\* latest row is undefined, and a trend or range code only when all three are
\* defined: UPTREND iff close > ma20 > ma60 > ma120, DOWNTREND iff
\* close < ma20 < ma60 < ma120, RANGE otherwise.
C6_MissingAverageIsStandby ==
    (Returned("market_state") /\ ~arg.none /\ len(arg) > 0) =>
        LET latest == iloc_last(arg)
            mas == <<latest.close, latest.ma20, latest.ma60, latest.ma120>>
            undefined == isna(latest.ma20) \/ isna(latest.ma60) \/ isna(latest.ma120)
            code == ret[1].code
        IN  /\ undefined => code = "None"
            /\ (~undefined /\ len(arg) >= MIN_BARS) =>
                    /\ code = "UPTREND" <=> Descending(mas)
                    /\ code = "DOWNTREND" <=> Ascending(mas)
                    /\ code = "RANGE" <=> (~Descending(mas) /\ ~Ascending(mas))

\* the true range of candle i as the indicator design states it
ExpectedTR(rows, i) ==
    LET range == FSub(rows[i].high, rows[i].low)
    IN  IF i = 1 THEN range
        ELSE LET up == FAbs(FSub(rows[i].high, rows[i - 1].close))
                 down == FAbs(FSub(rows[i].low, rows[i - 1].close))
                 gap == IF Lt(up, down) THEN down ELSE up
             IN  IF Lt(range, gap) THEN gap ELSE range

\* C7 (as claimed): in the output of add_indicators the true range of the first
\* candle is high - low, that of a later candle is
\* max(high - low, |high - prev_close|, |low - prev_close|), and the 14-period ATR
\* is defined from the 14th candle onward.
C7_TrueRange ==
    Returned("add_indicators") =>
        \A i \in 1..len(ret[1]) :
            /\ ret[1].rows[i].tr = ExpectedTR(arg.rows, i)
            /\ ~isna(ret[1].rows[i].atr) <=> i >= 14

Bracketed(g) == Le(g.lower, g.current) /\ Le(g.current, g.upper)
StrictlyBracketed(g) == Lt(g.lower, g.current) /\ Lt(g.current, g.upper)

GridCase == Returned("calculate_grid") /\ ~ret[1].none /\ Gt(ret[1].current, Q(0))

\* C8 (as claimed): every suggestion of calculate_grid for a configured symbol, a
\* window of at least 20 bars and a positive close has lower < current < upper.
C8_StrictBracket == GridCase => StrictlyBracketed(ret[1])

\* C8 (amended): such a suggestion has lower <= current <= upper; the bounds are
\* strict when the latest atr_pct is positive and both equal the current price
\* when atr_pct is 0.
C8_Bracket ==
    GridCase =>
        /\ Bracketed(ret[1])
        /\ Gt(ret[1].atr_pct, Q(0)) => StrictlyBracketed(ret[1])
        /\ ret[1].atr_pct = Q(0) => ret[1].lower = ret[1].current /\ ret[1].upper = ret[1].current

\* a flat market: atr_pct is 0 and the suggested grid has no width
C8_Witness ==
    /\ GridCase
    /\ ret[1].atr_pct = Q(0)
    /\ ret[1].lower = ret[1].upper

\* C10: for a window of at least 5 candles with non-negative volumes, risk_radar
\* never lists the volume spike: latest volume / mean of the last 5 volumes is at
\* most 5, and is undefined when the five volumes are all 0.
C10_NoVolumeSpike ==
    (Returned("risk_radar") /\ ~arg.none /\ len(arg) >= 5) =>
        LET volume == Column(tail(arg, 5), "volume")
        IN  /\ ret[1].none \/ \A i \in 1..Len(ret[1].alerts) : ret[1].alerts[i].kind # "volume_spike"
            /\ isna(vol_spike(arg)) \/ Le(vol_spike(arg), Q(5))
            /\ isna(vol_spike(arg)) <=> \A i \in 1..5 : volume[i] = Q(0)

\* the only trade of the last five minutes is in the latest candle: the ratio is 5
C10_Witness ==
    /\ Returned("risk_radar") /\ ~arg.none /\ len(arg) >= 5
    /\ vol_spike(arg) = Q(5)

Sends(kind) == {i \in 1..Len(last.sends) : last.sends[i].kind = kind}
Fired(kind) == {i \in 1..Len(last.fired) : last.fired[i] = kind}

\* C4: at most one send_telegram call is made per symbol, condition (attack or
\* dump) and hour label; the key is in alert_log after the call whatever the
\* transport did, and a key is in alert_log only after such a call.
C4_OncePerHourKey ==
    /\ \A k \in DOMAIN sent : k.cond \in {"attack", "dump"} => sent[k] = 1 /\ k \in alert_log
    /\ \A k \in alert_log : k \in DOMAIN sent
    /\ last.status = "shown" =>
            /\ \A i \in 1..Len(last.sends) : last.sends[i].key \in alert_log
            /\ \A i \in 1..Len(last.keys) : last.keys[i] \in alert_log

\* an attack signal in an hour whose key is already recorded: nothing is sent
C4_Witness ==
    /\ last.status = "shown"
    /\ Fired("attack") # {} /\ Sends("attack") = {}
    /\ \A i \in Fired("attack") : Count(sent, last.keys[i]) = 1

BothRiskFlags == last.status = "shown" /\ Fired("sharp_pump") # {} /\ Fired("sharp_dump") # {}

\* the minute labels read for the sharp pump and the sharp dump of the last iteration
PumpMinute == last.keys[CHOOSE i \in Fired("sharp_pump") : TRUE].bucket
DumpMinute == last.keys[CHOOSE i \in Fired("sharp_dump") : TRUE].bucket

OncePerMinuteKey == \A k \in DOMAIN sent : k.cond = "risk" => sent[k] = 1 /\ k \in alert_log

\* C9 (as claimed): at most one risk notification per symbol and minute key, and
\* when the sharp pump and the sharp dump fire in the same iteration the sharp
\* dump is not sent.
C9_SharpDumpSuppressed ==
    /\ OncePerMinuteKey
    /\ BothRiskFlags => Sends("sharp_dump") = {}

\* C9 (amended): at most one risk notification per symbol and minute key; when
\* both flags fire in the same iteration the sharp dump is not sent if its key
\* is computed in the same minute as the sharp pump's, and is sent only if the
\* minute label changed in between; the volume spike is never sent.
C9_OncePerMinuteKey ==
    /\ OncePerMinuteKey
    /\ BothRiskFlags =>
            /\ PumpMinute = DumpMinute => Sends("sharp_dump") = {}
            /\ Sends("sharp_dump") # {} => PumpMinute # DumpMinute
    /\ last.status = "shown" => Sends("volume_spike") = {}

\* both flags in one minute: the sharp pump went out, the sharp dump did not
C9_Witness ==
    /\ BothRiskFlags
    /\ PumpMinute = DumpMinute
    /\ Sends("sharp_pump") # {} /\ Sends("sharp_dump") = {}

\* C5: an iteration without usable data does not end the run: every symbol before
\* the loop position has been fetched and rendered, the position moves one symbol
\* at a time up to the end of the watch list, and the symbol without data shows
\* only the waiting state (no alert gate reached, nothing sent).
C5_RunNotAborted ==
    /\ pc \in 1..(Len(symbols) + 1)
    /\ \A i \in 1..Len(symbols) : i < pc <=> shown[i] # "none"
    /\ last.status = "waiting" =>
            last.fired = <<>> /\ last.keys = <<>> /\ last.sends = <<>>

\* the first symbol had no data and the second was evaluated in the same run
C5_Witness ==
    /\ Len(symbols) = 2 /\ pc = 3
    /\ shown = <<"waiting", "shown">>


====
